---- MODULE Spec2Model ----
(***************************************************************************)
(* Model of the HleduApi backend: the provider store and its process-wide  *)
(* cache (app/service/provider.py, app/resources.py, the provider routes), *)
(* the assessment orchestrator (app/service/writing.py) and the response   *)
(* parsers of the vendor adapters (app/ext/providers).                     *)
(*                                                                         *)
(* Scores are decimal numbers; the model holds them as integers in tenths, *)
(* so 7.5 is 75 and the valid range [0,10] is 0..100.                      *)
(***************************************************************************)
EXTENDS Integers, Sequences, FiniteSets, TLC

VARIABLES
    \* ---- ParseSpec: the parsers as pure functions ----
    raw,        \* the raw content handed to a parser
    parser,     \* which parser was applied ("idle" before)
    out,        \* what the parser produced: a mapping or an exception
    \* ---- Spec: provider store, cache and requests ----
    is_active,  \* committed provider.is_active column, by provider id
    ai_models,  \* committed ai_models rows: id -> [provider_id, is_active]
    cache,      \* app.service.provider._current_provider
    pc,         \* position of each request
    kind,       \* what each request is: "update", "current", "assess"
    arg,        \* provider_id of an update request
    tx,         \* each request's session: pending provider flags, or NoTx
    result,     \* what the service call of the request returned / raised
    local,      \* locals of the request (cached, llm_response binding ...)
    before,     \* history: store and cache when the request's call began
    \* ---- CallSpec: one generate_response call of an adapter ----
    call,       \* the adapter, what the vendor will answer, the POSTs made
    \* ---- AuthSpec: one HTTP request at the routes ----
    http,       \* the route, the X-OTP-Token header, the clock, what ran
    \* ---- StreamSpec: one run of the /writing/assess event generator ----
    sse         \* position of generate_sse, the service's answer, events sent

vars == <<raw, parser, out, is_active, ai_models, cache, pc, kind, arg, tx,
          result, local, before, call, http, sse>>

parseVars == <<raw, parser, out>>
callVars == <<call>>
unitVars == <<http, sse>>
storeVars == <<is_active, ai_models, cache, pc, kind, arg, tx, result, local, before>>

\* ------------------------------------------------------------------------
\* Bounds of the model
\* ------------------------------------------------------------------------
MaxTextLen == 2      \* longest free-text reply, in tokens
MaxProviders == 2    \* provider rows in the store
MaxModels == 2       \* ai_models rows in the store
MaxProcs == 2        \* requests that exist at a time
MaxScript == 3       \* answers of the vendor fixed for one call
MaxItems == 3        \* items of a list handed to _coerce_optional_str_list
MaxClock == 2        \* last 30-second period of the clock
MaxCalls == 2        \* service calls in one ServiceContext block

\* ------------------------------------------------------------------------
\* Program constants (tenths)
\* ------------------------------------------------------------------------
ScoreMin == 0        \* max(0.0, ...)
ScoreMax == 100      \* min(10.0, ...)
DefaultScore == 50   \* 5.0, default of a missing score

\* ------------------------------------------------------------------------
\* Text: a string is a sequence of tokens
\* ------------------------------------------------------------------------
LB == [t |-> "{"]
RB == [t |-> "}"]
LK == [t |-> "["]
RK == [t |-> "]"]
NL == [t |-> "nl"]
Null == [t |-> "null"]
Key(k) == [t |-> "key", s |-> k]
Num(n) == [t |-> "num", n |-> n]
Str(s) == [t |-> "str", s |-> s]
Word(w) == [t |-> "word", s |-> w]

\* Python values
PyNone == [t |-> "none"]
PyNum(n) == [t |-> "num", n |-> n]
PyStr(s) == [t |-> "str", s |-> s]
PyList(items) == [t |-> "list", items |-> items]
PyDict(f) == [t |-> "dict", f |-> f]
PyText(toks) == [t |-> "text", toks |-> toks]

EmptyMap == [x \in {} |-> PyNone]
Put(f, k, v) == [x \in (DOMAIN f) \cup {k} |-> IF x = k THEN v ELSE f[x]]
Get(f, k, default) == IF k \in DOMAIN f THEN f[k] ELSE default

Returned(v) == [exc |-> "none", val |-> v]
Raised(e) == [exc |-> e, val |-> PyNone]

ScoreFields == <<"overall_score", "grammar_score", "vocabulary_score",
                 "coherence_score", "content_score">>
RequiredFields == ScoreFields \o <<"general_feedback">>

Range(seq) == {seq[i] : i \in DOMAIN seq}

\* ------------------------------------------------------------------------
\* json.loads over tokens.  value := num | str | null | { (key value)* }
\* | [ value* ]; the separators are not tokens.  A document is one value
\* with nothing after it.
\* ------------------------------------------------------------------------
NoParse == [ok |-> FALSE, val |-> PyNone, rest |-> <<>>]
Parsed(v, rest) == [ok |-> TRUE, val |-> v, rest |-> rest]

RECURSIVE ParseValue(_), ParseMembers(_, _), ParseItems(_, _)
ParseValue(ts) ==
    IF ts = <<>> THEN NoParse
    ELSE LET h == Head(ts)
             r == Tail(ts)
         IN CASE h.t = "num"  -> Parsed(PyNum(h.n), r)
              [] h.t = "str"  -> Parsed(PyStr(h.s), r)
              [] h.t = "null" -> Parsed(PyNone, r)
              [] h.t = "{"    -> ParseMembers(r, EmptyMap)
              [] h.t = "["    -> ParseItems(r, <<>>)
              [] OTHER        -> NoParse

ParseMembers(ts, acc) ==
    IF ts = <<>> THEN NoParse
    ELSE IF Head(ts).t = "}" THEN Parsed(PyDict(acc), Tail(ts))
    ELSE IF Head(ts).t = "key"
         THEN LET v == ParseValue(Tail(ts))
              IN IF v.ok THEN ParseMembers(v.rest, Put(acc, Head(ts).s, v.val))
                 ELSE NoParse
         ELSE NoParse

ParseItems(ts, acc) ==
    IF ts = <<>> THEN NoParse
    ELSE IF Head(ts).t = "]" THEN Parsed(PyList(acc), Tail(ts))
    ELSE LET v == ParseValue(ts)
         IN IF v.ok THEN ParseItems(v.rest, Append(acc, v.val)) ELSE NoParse

\* json.loads(s): TypeError for anything but a string, JSONDecodeError for
\* text that is not one JSON document.
json_loads(s) ==
    IF s.t # "text" THEN Raised("TypeError")
    ELSE LET p == ParseValue(s.toks)
         IN IF p.ok /\ p.rest = <<>> THEN Returned(p.val)
            ELSE Raised("JSONDecodeError")

\* ------------------------------------------------------------------------
\* float(): the numeric strings of the model and their values
\* ------------------------------------------------------------------------
NoFloat == [ok |-> FALSE, n |-> 0]

\* the float nan (float("nan"), or the literal NaN that json.loads accepts):
\* a number outside every score of the model, which compares false with
\* every float
NaN == 0 - 1000
FLt(a, b) == a # NaN /\ b # NaN /\ a < b

\* str.strip() on the strings of the model
Strip(s) ==
    CASE s = " "   -> ""
      [] s = " x " -> "x"
      [] s = " 7 " -> "7"
      [] OTHER     -> s

StrToFloat(s) ==
    CASE s = "7"   -> [ok |-> TRUE, n |-> 70]
      [] s = "8"   -> [ok |-> TRUE, n |-> 80]
      [] s = "12"  -> [ok |-> TRUE, n |-> 120]
      [] s = "-3"  -> [ok |-> TRUE, n |-> 0 - 30]
      [] s = "nan" -> [ok |-> TRUE, n |-> NaN]
      [] OTHER     -> NoFloat

\* text.split("/", 1)[0]
BeforeSlash(s) == IF s = "8/10" THEN "8" ELSE s

\* float(v) of the orchestrator: ValueError for a non-numeric string,
\* TypeError for None, a list or a dict.
PyFloat(v) ==
    CASE v.t = "num" -> Returned(v.n)
      [] v.t = "str" -> IF StrToFloat(v.s).ok THEN Returned(StrToFloat(v.s).n)
                        ELSE Raised("ValueError")
      [] OTHER       -> Raised("TypeError")

Min2(a, b) == IF FLt(b, a) THEN b ELSE a
Max2(a, b) == IF FLt(a, b) THEN b ELSE a
\* a clamp whose upper end is 8.0
ClampAtEight(x) == Max2(ScoreMin, Min2(ScoreMax - 20, x))
Clamp(x) == Max2(ScoreMin, Min2(ScoreMax, x))

\* ------------------------------------------------------------------------
\* Regular expressions of the text fallback, over tokens
\* ------------------------------------------------------------------------
Abs(n) == IF n < 0 THEN 0 - n ELSE n
SetMin(S) == CHOOSE x \in S : \A y \in S : x <= y

\* (\d+\.?\d*) inside one token: the digits of a number (its sign is not
\* part of the match) or the leading digits of a string.
DigitsOf(tok) ==
    CASE tok.t = "num" -> [ok |-> TRUE, n |-> Abs(tok.n)]
      [] tok.t = "str" -> StrToFloat(BeforeSlash(tok.s))
      [] OTHER         -> NoFloat

\* the category keywords a lower-cased token contains
KeywordsIn(tok) ==
    CASE tok.t = "word" -> {tok.s}
      [] tok.t = "key"  ->
            CASE tok.s = "overall_score"    -> {"overall"}
              [] tok.s = "grammar_score"    -> {"grammar"}
              [] tok.s = "vocabulary_score" -> {"vocabulary"}
              [] tok.s = "coherence_score"  -> {"coherence"}
              [] tok.s = "content_score"    -> {"content"}
              [] tok.s = "general_feedback" -> {"general"}
              [] OTHER                      -> {}
      [] OTHER -> {}

\* '.*?' stops at the first number or at the end of the line
StopAfter(ts, i) ==
    LET js == {j \in (i + 1)..Len(ts) : ts[j].t = "nl" \/ DigitsOf(ts[j]).ok}
    IN IF js = {} THEN 0 ELSE SetMin(js)

\* re.search(r'<kw>.*?(\d+\.?\d*)', text.lower()): the leftmost keyword
\* that a number follows on its line, and float(group(1))
SearchScore(ts, kw) ==
    LET starts == {i \in 1..Len(ts) :
                      /\ kw \in KeywordsIn(ts[i])
                      /\ StopAfter(ts, i) # 0
                      /\ ts[StopAfter(ts, i)].t # "nl"}
    IN IF starts = {} THEN NoFloat
       ELSE DigitsOf(ts[StopAfter(ts, SetMin(starts))])

\* re.search(r'(?:overall|general).*?(?:feedback|assessment|comment):\s*([^.]+)')
SearchGeneralFeedback(ts) ==
    \E i \in 1..Len(ts) : \E j \in (i + 1)..Len(ts) :
        /\ KeywordsIn(ts[i]) \cap {"overall", "general"} # {}
        /\ ts[j] = Word("feedback:")
        /\ \A k \in (i + 1)..(j - 1) : ts[k].t # "nl"
        /\ \E k \in (j + 1)..Len(ts) : ts[k].t # "nl"

\* round(sum(scores) / len(scores), 1) of four scores, half to even
RoundMean4(total) ==
    LET q == total \div 4
        r == total % 4
    IN IF r < 2 THEN q
       ELSE IF r > 2 THEN q + 1
       ELSE IF q % 2 = 0 THEN q ELSE q + 1

\* f'{cat}_score' for cat in ['grammar_score', ...]
WithScoreSuffix(cat) ==
    CASE cat = "grammar_score"    -> "grammar_score_score"
      [] cat = "vocabulary_score" -> "vocabulary_score_score"
      [] cat = "coherence_score"  -> "coherence_score_score"
      [] cat = "content_score"    -> "content_score_score"

\* WritingAssessmentService._extract_useful_info_from_text
ScorePatterns == <<"grammar", "vocabulary", "structure", "content", "overall", "coherence">>
PatternField(kw) ==
    CASE kw = "grammar"    -> "grammar_score"
      [] kw = "vocabulary" -> "vocabulary_score"
      [] kw = "structure"  -> "structure_score"
      [] kw = "content"    -> "content_score"
      [] kw = "overall"    -> "overall_score"
      [] kw = "coherence"  -> "coherence_score"

Categories == <<"grammar_score", "vocabulary_score", "coherence_score", "content_score">>

_extract_useful_info_from_text(ts) ==
    LET found == {kw \in Range(ScorePatterns) : SearchScore(ts, kw).ok}
        info1 == [f \in {PatternField(kw) : kw \in found} |->
                     LET kw == CHOOSE k \in found : PatternField(k) = f
                     IN PyNum(SearchScore(ts, kw).n)]
        scores == [i \in 1..4 |->
                     Get(info1, WithScoreSuffix(Categories[i]), PyNum(DefaultScore)).n]
        info2 == Put(info1, "overall_score",
                     PyNum(RoundMean4(scores[1] + scores[2] + scores[3] + scores[4])))
    IN IF SearchGeneralFeedback(ts)
       THEN Put(info2, "general_feedback", PyStr("<captured>"))
       ELSE info2

\* WritingAssessmentService._extract_from_text
_extract_from_text(content) ==
    LET info == _extract_useful_info_from_text(content.toks)
        fixed == [k \in {"detailed_feedback", "suggested_writing"} |-> content]
        lists == [k \in {"grammar_errors", "grammar_improvements",
                         "vocabulary_suggestions", "vocabulary_improvements",
                         "improvement_suggestions"} |-> Get(info, k, PyList(<<>>))]
        scores == [k \in Range(ScoreFields) |-> Get(info, k, PyNum(DefaultScore))]
        fb == [k \in {"general_feedback"} |->
                  Get(info, k, PyStr("AI response parsing completed"))]
    IN scores @@ fb @@ fixed @@ lists

\* WritingAssessmentService._get_default_value
_get_default_value(field) ==
    CASE field \in Range(ScoreFields)    -> PyNum(DefaultScore)
      [] field = "general_feedback"      -> PyStr("Assessment incomplete")
      [] field = "detailed_feedback"     -> PyStr("Some assessment data is missing")
      [] field \in {"grammar_errors", "grammar_improvements",
                    "vocabulary_suggestions", "vocabulary_improvements",
                    "improvement_suggestions"} -> PyList(<<>>)
      [] OTHER                           -> PyStr("")

\* The score loop of _parse_ai_response: float(data[field]) of each score in
\* order; the first conversion that fails raises.
FirstBadScore(d) ==
    LET bad == {i \in DOMAIN ScoreFields : PyFloat(d[ScoreFields[i]]).exc # "none"}
    IN IF bad = {} THEN 0 ELSE SetMin(bad)

ClampScores(d) ==
    [k \in DOMAIN d |-> IF k \in Range(ScoreFields)
                         THEN PyNum(Clamp(PyFloat(d[k]).val))
                         ELSE d[k]]

BackfillRequired(f) ==
    [k \in (DOMAIN f) \cup Range(RequiredFields) |->
        IF k \in DOMAIN f THEN f[k] ELSE _get_default_value(k)]

\* WritingAssessmentService._parse_ai_response.  Only json.JSONDecodeError is
\* caught; `field not in data` raises TypeError for None and numbers, and
\* `data[field] = ...` raises TypeError for lists and strings.
_parse_ai_response(response) ==
    LET j == json_loads(response)
    IN IF j.exc = "JSONDecodeError"
       THEN Returned(PyDict(_extract_from_text(response)))
       ELSE IF j.exc # "none" THEN Raised(j.exc)
       ELSE IF j.val.t # "dict" THEN Raised("TypeError")
       ELSE LET d == BackfillRequired(j.val.f)
            IN IF FirstBadScore(d) # 0
               THEN Raised(PyFloat(d[ScoreFields[FirstBadScore(d)]]).exc)
               ELSE Returned(PyDict(ClampScores(d)))

\* ------------------------------------------------------------------------
\* The vendor adapters' parsers (app/ext/providers)
\* ------------------------------------------------------------------------
\* the try block of _parse_score: the float the value is read as, 0.0 when
\* it cannot be read
ParsedOrZero(value) ==
    CASE value.t = "str" ->
            LET f == StrToFloat(BeforeSlash(Strip(value.s))) IN IF f.ok THEN f.n ELSE 0
      [] value.t = "num" -> value.n
      [] OTHER           -> 0

\* GeminiProvider._parse_score
Gemini_parse_score(value) ==
    LET parsed == ParsedOrZero(value)
    IN IF FLt(parsed, ScoreMin) THEN ScoreMin
       ELSE IF FLt(ScoreMax, parsed) THEN ScoreMax
       ELSE parsed

\* OpenAIProvider._parse_score
OpenAI_parse_score(value) == Max2(ScoreMin, Min2(ScoreMax, ParsedOrZero(value)))

\* GrokProvider._parse_score
Grok_parse_score(value) ==
    LET parsed == ParsedOrZero(value)
    IN IF FLt(parsed, ScoreMin) THEN ScoreMin
       ELSE IF FLt(ScoreMax, parsed) THEN ScoreMax
       ELSE parsed

_parse_score(adapter, value) ==
    CASE adapter = "gemini" -> Gemini_parse_score(value)
      [] adapter = "openai" -> OpenAI_parse_score(value)
      [] adapter = "grok"   -> Grok_parse_score(value)

ListFields == {"grammar_errors", "grammar_improvements", "vocabulary_suggestions",
               "vocabulary_improvements", "improvement_suggestions"}

\* _error_response of each adapter
_error_response(adapter) ==
    [k \in Range(ScoreFields) |-> PyNum(0)]
    @@ (IF adapter = "gemini"
        THEN [k \in {"general_feedback"} |->
                 PyStr("Unable to assess writing due to technical error.")]
             @@ [k \in {"detailed_feedback"} |-> PyStr("Please try again later.")]
             @@ [k \in ListFields \cup {"suggested"} |-> PyNone]
        ELSE [k \in {"general_feedback"} |-> PyStr("Failed to parse AI response.")]
             @@ [k \in {"detailed_feedback"} |->
                    PyStr("There was an error processing the assessment response.")]
             @@ [k \in ListFields |-> PyList(<<>>)]
             @@ [k \in {"suggested"} |-> PyStr("")])

\* BaseProvider._get_optional_field
_get_optional_field(data, field_name) ==
    LET field_data == Get(data, field_name, PyNone)
    IN IF field_data = PyList(<<>>) \/ field_data = PyStr("") THEN PyNone
       ELSE field_data

\* str(item) of a list element
PyStrOf(item) == IF item.t = "str" THEN item.s ELSE "<str(item)>"

\* a variant that keeps the None items of a list, as the string "None"
KeepNoneItems(value) ==
    CASE value.t = "str" ->
            IF Strip(value.s) = "" THEN PyNone ELSE PyList(<<PyStr(Strip(value.s))>>)
      [] value.t = "list" ->
            IF value.items = <<>> THEN PyNone
            ELSE PyList([i \in DOMAIN value.items |->
                            IF value.items[i] = PyNone THEN PyStr("None")
                            ELSE PyStr(PyStrOf(value.items[i]))])
      [] OTHER -> PyNone

\* _coerce_optional_str_list of GeminiProvider and GrokProvider (the
\* adapters' parse_writing_response calls it on each list field)
_coerce_optional_str_list(value) ==
    CASE value.t = "str" ->
            IF Strip(value.s) = "" THEN PyNone ELSE PyList(<<PyStr(Strip(value.s))>>)
      [] value.t = "list" ->
            LET out1 == SelectSeq(value.items, LAMBDA x : x # PyNone)
            IN IF out1 = <<>> THEN PyNone
               ELSE PyList([i \in DOMAIN out1 |-> PyStr(PyStrOf(out1[i]))])
      [] OTHER -> PyNone

\* OpenAIProvider._coerce_optional_str_list: str(item) on every item that
\* is not None
OpenAI_coerce_optional_str_list(value) ==
    CASE value.t = "str" ->
            IF Strip(value.s) = "" THEN PyNone ELSE PyList(<<PyStr(Strip(value.s))>>)
      [] value.t = "list" ->
            LET kept == SelectSeq(value.items, LAMBDA item : item # PyNone)
            IN IF kept = <<>> THEN PyNone
               ELSE PyList([i \in DOMAIN kept |-> PyStr(PyStrOf(kept[i]))])
      [] OTHER -> PyNone

CoerceList(adapter, value) ==
    IF adapter = "openai" THEN OpenAI_coerce_optional_str_list(value)
    ELSE _coerce_optional_str_list(value)

\* GrokProvider._parse_grammar_errors / _parse_vocabulary_suggestions: the
\* dict items of the list, in order; iterating a value that is no list raises
KeepDicts(v) ==
    IF v.t = "list" THEN Returned(PyList(SelectSeq(v.items, LAMBDA x : x.t = "dict")))
    ELSE IF v.t \in {"dict", "str"} THEN Returned(PyList(<<>>))
    ELSE Raised("TypeError")

OrEmptyList(v) == IF v = PyNone THEN PyList(<<>>) ELSE v

\* the mapping built inside the try block of parse_writing_response
MappedResponse(adapter, data) ==
    [k \in Range(ScoreFields) |-> PyNum(_parse_score(adapter, Get(data, k, PyNone)))]
    @@ [k \in {"general_feedback", "detailed_feedback"} |-> Get(data, k, PyStr(""))]
    @@ [k \in {"grammar_improvements", "vocabulary_improvements",
               "improvement_suggestions"} |->
           CoerceList(adapter,
               IF adapter = "openai" THEN Get(data, k, PyNone)
               ELSE _get_optional_field(data, k))]
    @@ [k \in {"grammar_errors", "vocabulary_suggestions"} |->
           CASE adapter = "openai" -> Get(data, k, PyNone)
             [] adapter = "gemini" -> _get_optional_field(data, k)
             [] adapter = "grok"   -> KeepDicts(OrEmptyList(_get_optional_field(data, k))).val]
    @@ [k \in {"suggested"} |->
           IF adapter = "openai" THEN Get(data, k, PyNone)
           ELSE _get_optional_field(data, k)]

\* parse_writing_response of GeminiProvider, OpenAIProvider and GrokProvider:
\* every exception of the try block is caught and gives _error_response()
parse_writing_response(adapter, raw_content) ==
    LET j == IF raw_content.t = "text" THEN json_loads(raw_content)
             ELSE Returned(raw_content)
    IN IF j.exc # "none" THEN Returned(PyDict(_error_response(adapter)))
       ELSE IF j.val.t # "dict" THEN Returned(PyDict(_error_response(adapter)))
       ELSE IF /\ adapter = "grok"
               /\ \E k \in {"grammar_errors", "vocabulary_suggestions"} :
                     KeepDicts(OrEmptyList(_get_optional_field(j.val.f, k))).exc # "none"
            THEN Returned(PyDict(_error_response(adapter)))
       ELSE Returned(PyDict(MappedResponse(adapter, j.val.f)))

\* ------------------------------------------------------------------------
\* The raw contents the parsers are applied to
\* ------------------------------------------------------------------------
SeqsUpTo(S, n) == UNION {[1..k -> S] : k \in 0..n}

\* a reply whose scores are base, base+1.0, base+2.0, base+3.0 and their mean
SpreadScore(base, k) ==
    CASE k = "grammar_score"    -> base
      [] k = "vocabulary_score" -> base + 10
      [] k = "coherence_score"  -> base + 20
      [] k = "content_score"    -> base + 30
      [] k = "overall_score"    -> base + 15

BaseScores == {0, 60}
Same == [t |-> "same"]
Absent == [t |-> "absent"]
Treatments == {Same, Absent, Num(850), Num(0 - 10), Str("7"), Str("8/10"),
               Str("abc"), Null}

\* the member of field k: the regular one, except that the field `special`
\* is left out or given the value `treat`
Member(k, base, special, treat) ==
    LET regular == IF k = "general_feedback" THEN Str("good")
                   ELSE Num(SpreadScore(base, k))
    IN IF k # special \/ treat = Same THEN <<Key(k), regular>>
       ELSE IF treat = Absent THEN <<>>
       ELSE <<Key(k), treat>>

Members(base, special, treat) ==
    Member(RequiredFields[1], base, special, treat)
    \o Member(RequiredFields[2], base, special, treat)
    \o Member(RequiredFields[3], base, special, treat)
    \o Member(RequiredFields[4], base, special, treat)
    \o Member(RequiredFields[5], base, special, treat)
    \o Member(RequiredFields[6], base, special, treat)

Bodies == {Members(b, k, tr) : b \in BaseScores, k \in Range(RequiredFields),
                               tr \in Treatments}

ObjectTexts == {<<LB>> \o m \o <<RB>> : m \in Bodies}
TruncatedTexts == {<<LB>> \o m : m \in Bodies}
WrappedTexts == {<<Word("here")>> \o <<LB>> \o m \o <<RB>> : m \in Bodies}
OtherJson == {<<Null>>, <<Num(50)>>, <<LK, RK>>, <<LK, Num(50), RK>>, <<Str("abc")>>}

TextAlphabet == {Word("grammar"), Word("coherence"), Word("structure"),
                 Word("overall"), Word("feedback:"), Word("the"),
                 Num(70), Num(850), NL}
FreeTexts == SeqsUpTo(TextAlphabet, MaxTextLen)

Texts == ObjectTexts \cup TruncatedTexts \cup WrappedTexts \cup OtherJson \cup FreeTexts

\* a content that is no string: None (a message without content), or a
\* mapping that was decoded already
NonStrings == {PyNone, PyDict([k \in {"grammar_score"} |-> PyNum(70)])}

RawInputs == {PyText(ts) : ts \in Texts} \cup NonStrings

Adapters == {"gemini", "openai", "grok"}

\* ------------------------------------------------------------------------
\* The provider store (app/model/db.py) and the cache
\* ------------------------------------------------------------------------
Providers == 1..MaxProviders
Models == 1..MaxModels
Procs == 1..MaxProcs

\* provider.name of the rows, by id
ProviderNames == <<"gemini", "meta-llama", "groq", "openai", "custom">>
ProviderName(q) == ProviderNames[((q - 1) % Len(ProviderNames)) + 1]

NoTx == [open |-> FALSE, writes |-> EmptyMap]
NoResult == [tag |-> "none"]
Success(v) == [tag |-> "success", val |-> v]
Failure(e) == [tag |-> "failure", err |-> e]

\* what a statement of session p reads: the committed rows under the
\* session's own pending writes
View(p) ==
    [q \in Providers |-> IF q \in DOMAIN tx[p].writes THEN tx[p].writes[q]
                         ELSE is_active[q]]

Overlay(w1, w2) ==
    [q \in (DOMAIN w1) \cup (DOMAIN w2) |-> IF q \in DOMAIN w2 THEN w2[q] ELSE w1[q]]

\* COMMIT of the pending writes
Committed(flags, writes) ==
    [q \in Providers |-> IF q \in DOMAIN writes THEN writes[q] ELSE flags[q]]

\* Provider.from_db: the composite of a row with all its models
Provider_from_db(q, flags, models) ==
    [t |-> "provider", id |-> q, name |-> ProviderName(q), is_active |-> flags[q],
     ai_models |-> {m \in Models : models[m].provider_id = q}]

\* variant of active_models without the is_active filter
all_models(q, models) ==
    {m \in Models : models[m].provider_id = q}

\* [model for model in provider_db.ai_models if model.is_active]
active_models(q, models) ==
    {m \in Models : models[m].provider_id = q /\ models[m].is_active}

\* variant of SlotAtYield in which the coroutine is suspended between the
\* two assignments
SlotBetweenAssignments(assigned, models) == assigned

\* load_and_get_provider assigns the slot twice: `_current_provider =
\* c.Provider.from_db(provider_db)` with every model of the row, then
\* `_current_provider.ai_models = [...]` with the active ones.  No await
\* separates the two, so the slot holds the second value when the coroutine
\* is next suspended and another request can run.
SlotAtYield(assigned, models) ==
    [assigned EXCEPT !.ai_models = active_models(assigned.id, models)]

\* load_and_get_provider: the new value of _current_provider.  The SELECT
\* may raise; scalar_one_or_none() raises when more than one row is active;
\* both are caught and leave None.
load_and_get_provider(flags, models, ok) ==
    LET rows == {q \in Providers : flags[q]}
    IN IF ~ok \/ Cardinality(rows) # 1 THEN PyNone
       ELSE SlotAtYield(Provider_from_db(CHOOSE r \in rows : TRUE, flags, models), models)

\* variant of UnsetAllWrites that clears no row
UnsetNoneWrites == EmptyMap

\* UPDATE provider SET is_active = False
UnsetAllWrites == [q \in Providers |-> FALSE]

\* variant of SetOneWrites that sets no row
SetNoneWrites(provider_id) == EmptyMap

\* UPDATE provider SET is_active = True WHERE id = provider_id
SetOneWrites(provider_id) == [q \in Providers \cap {provider_id} |-> TRUE]

\* result.rowcount of that UPDATE
RowCount(provider_id) == Cardinality(Providers \cap {provider_id})

\* get_cached_provider(): the value of the slot, which it leaves alone
get_cached_provider(slot) == slot

\* variant of HandlerRaises in which a handler always returns normally
HandlerReturns(k, res) == FALSE

\* The update route declares response_model=vr.ProviderResponse.  When the
\* service result is a Failure, `ctx <= result` aborts the block, the abort
\* is swallowed and the handler returns None, which the response model
\* rejects: the request ends with an exception that reaches call_session.
\* The read route declares an Optional model and a Failure never occurs.
HandlerRaises(k, res) == k = "update" /\ res.tag = "failure"

\* a close that commits whatever the handler did
CloseCommitsAlways(exc) == TRUE

\* ResourceSession.close: status = self._status and exc is None, where
\* _status is cleared by session.fail(), which only the except clause of
\* call_session calls
CloseCommits(exc) == ~exc

\* ResourceSession.close: the statement sent for an open transaction
CloseStatement(in_transaction, exc) ==
    IF ~in_transaction THEN "none"
    ELSE IF CloseCommits(exc) THEN "commit" ELSE "rollback"

\* ResourceSession.close: what it awaits, in order; an exception of the
\* commit or rollback is logged, and db.close() is in the finally clause
CloseAwaits(in_transaction, exc) ==
    (IF in_transaction THEN <<CloseStatement(in_transaction, exc)>> ELSE <<>>)
    \o <<"close">>

NoEnd == [awaited |-> <<>>, in_transaction |-> FALSE, raised |-> FALSE]

NoRequest == [has_mode |-> FALSE, type |-> "none", mode |-> "none"]
NoOutcome == [exc |-> "pending", val |-> PyNone]
Local0 == [cached |-> PyNone, provider |-> PyNone, fetched |-> PyNone,
           ended |-> NoEnd, queried |-> FALSE,
           faulted |-> FALSE, exc |-> FALSE, request |-> NoRequest,
           outcome |-> NoOutcome]
History0 == [flags |-> [q \in Providers |-> FALSE], cache |-> PyNone]

\* ------------------------------------------------------------------------
\* The assessment orchestrator (app/service/writing.py) after the awaits
\* ------------------------------------------------------------------------
Types == {"word", "sentence", "paragraph", "essay"}
Modes == {"writing", "speaking"}

\* The objects assess_writing is called with.  A WritingAssessmentRequest
\* (app/api/view/requests.py) declares no `mode` field (has_mode = FALSE);
\* an object that carries one has has_mode = TRUE.
Requests ==
    {[has_mode |-> FALSE, type |-> ty, mode |-> "none"] : ty \in Types}
    \cup {[has_mode |-> TRUE, type |-> ty, mode |-> mo] : ty \in Types, mo \in Modes}

\* PromptTemplate(..., mode=request.mode).build(): reading a missing `mode`
\* raises AttributeError; WritingAssessmentTemplate accepts only the
\* paragraph and sentence types, SpeakingAssessmentTemplate all four.
BuildRaises(req) ==
    \/ ~req.has_mode
    \/ req.mode = "writing" /\ req.type \notin {"paragraph", "sentence"}

\* `"x" in name` for the lower-cased provider names of the model
NameParts(name) ==
    CASE name = "gemini"     -> {"gemini"}
      [] name = "meta-llama" -> {"meta", "llama"}
      [] name = "groq"       -> {"groq"}
      [] name = "openai"     -> {"openai"}
      [] OTHER               -> {}

\* a choice that looks for "meta" and "llama" before "openai"
MetaBeforeOpenAI(parts) ==
    IF parts \cap {"meta", "llama"} # {} THEN "meta"
    ELSE IF "openai" \in parts THEN "openai"
    ELSE IF parts \cap {"grok", "groq"} # {} THEN "grok"
    ELSE IF parts \cap {"gemini", "google"} # {} THEN "gemini"
    ELSE "openai"

\* LLMManager._ensure_provider, the if/elif chain that chooses the adapter
\* class, given the keywords the lower-cased name contains
AdapterOf(parts) ==
    IF "openai" \in parts THEN "openai"
    ELSE IF parts \cap {"meta", "llama"} # {} THEN "meta"
    ELSE IF parts \cap {"grok", "groq"} # {} THEN "grok"
    ELSE IF parts \cap {"gemini", "google"} # {} THEN "gemini"
    ELSE "openai"

AdapterFor(name) == AdapterOf(NameParts(name))

\* the model handed to ProviderConfig: the first active model of the cached
\* provider (0 for None)
ModelArg(provider) ==
    IF provider.ai_models = {} THEN 0 ELSE SetMin(provider.ai_models)

ProviderConfigFields == {"provider_name", "api_key", "model", "api_secret",
                         "temperature", "max_tokens", "timeout_seconds"}
LLmResponseFields == {"content", "provider_name", "model"}

\* generate_response of the adapter: MetaProvider reads config.model_name,
\* which ProviderConfig does not have, before its try block; the other
\* adapters return the reply, or empty content when the call failed.
EntryRaises(adapter) ==
    adapter = "meta" /\ "model_name" \notin ProviderConfigFields

generate_response(adapter, provider, reply) ==
    IF EntryRaises(adapter)
    THEN Raised("AttributeError")
    ELSE Returned([content |-> reply, provider_name |-> provider.name,
                   model |-> ModelArg(provider)])

\* WritingAssessmentResponse(**kwargs): pydantic validation.  Unknown
\* keywords are ignored; a missing required field or a score outside
\* [0,10] raises ValidationError.
ResponseRequired == Range(ScoreFields) \cup
    {"general_feedback", "detailed_feedback", "provider", "model",
     "assessment_timestamp"}
ResponseOptional == ListFields \cup {"suggested"}

WritingAssessmentResponse(kwargs) ==
    IF /\ ResponseRequired \subseteq DOMAIN kwargs
       /\ \A k \in Range(ScoreFields) :
             /\ kwargs[k].t = "num"
             /\ kwargs[k].n >= ScoreMin
             /\ kwargs[k].n <= ScoreMax
    THEN Returned(PyDict([k \in (DOMAIN kwargs) \cap (ResponseRequired \cup ResponseOptional)
                             |-> kwargs[k]]))
    ELSE Raised("ValidationError")

\* the keyword arguments of _create_fallback_response
FallbackKwargs ==
    [k \in Range(ScoreFields) |-> PyNum(0)]
    @@ [k \in {"general_feedback", "detailed_feedback", "suggested_writing",
               "provider_used", "model_used"} |-> PyStr("<text>")]
    @@ [k \in ListFields |-> PyList(<<>>)]

Unbound == [t |-> "unbound"]

\* the except block of assess_writing: _create_fallback_response(request,
\* llm_response, str(e)) reads the local llm_response, which is unbound
\* when the failure came before generate() returned
ExceptHandler(llm_response) ==
    IF llm_response = Unbound THEN Raised("UnboundLocalError")
    ELSE WritingAssessmentResponse(FallbackKwargs)

\* LLMManager._ensure_provider: `if provider is None: raise HTTPException(
\* status_code=500, detail="No active provider configured")`
no_provider_check(provider) ==
    IF provider = PyNone THEN Raised("HTTPException(500, No active provider configured)")
    ELSE Returned(provider)

\* the try/except of assess_writing around a step that did `r`: every
\* Exception, HTTPException included, goes to the except block
TryExcept(r, llm_response) ==
    IF r.exc # "none" THEN ExceptHandler(llm_response) ELSE r

\* step 4 of assess_writing: the response object, or the except block when
\* its validation fails
Constructed(llm_response, made) ==
    IF made.exc # "none" THEN ExceptHandler(llm_response) ELSE made

\* steps 3 and 4 of assess_writing, given what _parse_ai_response did;
\* step 4 reads llm_response.model_name, which LLmResponse does not have
BuildResponse(llm_response, parsed) ==
    IF parsed.exc # "none" THEN ExceptHandler(llm_response)
    ELSE IF "model_name" \notin LLmResponseFields THEN ExceptHandler(llm_response)
    ELSE Constructed(llm_response,
                     WritingAssessmentResponse(
                         parsed.val.f
                         @@ [k \in {"provider_used", "model_used"} |-> PyStr("<text>")]))

ParseAndBuild(llm_response) ==
    BuildResponse(llm_response, _parse_ai_response(llm_response.content))

\* step 2 of assess_writing, given what generate() did
AfterGenerate(g) ==
    IF g.exc # "none" THEN ExceptHandler(Unbound) ELSE ParseAndBuild(g.val)

\* assess_writing from the vendor call on
AfterResolve(provider, reply) ==
    AfterGenerate(generate_response(AdapterFor(provider.name), provider, reply))

\* the replies of the vendor in the request machine: one of each shape
VendorReplies ==
    {PyText(<<LB>> \o Members(60, "overall_score", Same) \o <<RB>>),
     PyText(<<LB>> \o Members(60, "overall_score", Same)),
     PyText(<<Null>>),
     PyText(<<Word("grammar"), Num(850)>>),
     PyText(<<>>),
     PyNone}

\* ------------------------------------------------------------------------
\* AuthSpec: one HTTP request at the routes (app/api/route/front): FastAPI
\* resolves the dependencies the route declares, then calls the handler.
\* ------------------------------------------------------------------------
Routes == {"GET /provider/current", "PUT /provider/update", "POST /writing/assess"}

\* the Depends(...) each route declares
DependencyOf(route) ==
    CASE route = "PUT /provider/update"  -> "with_otp"
      [] route = "GET /provider/current" -> "maybe_otp"
      [] route = "POST /writing/assess"  -> "none"

\* what the handler of a route calls
HandlerCalls(route) ==
    CASE route = "PUT /provider/update"  -> "update_provider"
      [] route = "GET /provider/current" -> "load_and_get_provider"
      [] route = "POST /writing/assess"  -> "assess_writing"

\* OTPAuthService(digits=8)
OtpDigits == 8

\* the X-OTP-Token header: absent, or a string of some length, of digits
\* only or not, that is the code of some 30-second period
Periods == 0..MaxClock
NoToken == [present |-> FALSE, digits |-> FALSE, len |-> 0, period |-> 0]
Tokens ==
    {NoToken}
    \cup {[present |-> TRUE, digits |-> d, len |-> n, period |-> t] :
             d \in BOOLEAN, n \in {0, OtpDigits - 1, OtpDigits}, t \in Periods}

\* OTPAuthService.verify_token: totp.verify(token, valid_window=1)
verify_token(token, now) ==
    /\ token.len = OtpDigits
    /\ token.digits
    /\ token.period \in (now - 1)..(now + 1)

\* OTPAuthorization.__call__: the status the dependency ends the request
\* with, 0 when it returns OTPAuthorized
OTPAuthorization(token, now) ==
    IF ~token.present THEN 422
    ELSE IF token.len = 0 THEN 401
    ELSE IF ~token.digits \/ token.len # OtpDigits THEN 401
    ELSE IF ~verify_token(token, now) THEN 401
    ELSE 0

\* the status a route's dependencies end the request with, 0 when the
\* handler is called; OptionalOTPAuthorization never aborts
Resolved(route, token, now) ==
    IF DependencyOf(route) = "with_otp" THEN OTPAuthorization(token, now) ELSE 0

NoHttp == [pc |-> "idle", route |-> "none", token |-> NoToken, now |-> 0,
           status |-> 0, invoked |-> "none"]

Receive ==
    /\ http.pc = "idle"
    /\ \E route \in Routes, token \in Tokens, now \in Periods :
          http' = [NoHttp EXCEPT !.pc = "dependencies", !.route = route,
                                 !.token = token, !.now = now]
    /\ UNCHANGED <<parseVars, storeVars, callVars, sse>>

ResolveDependencies ==
    /\ http.pc = "dependencies"
    /\ http' = IF Resolved(http.route, http.token, http.now) = 0
               THEN [http EXCEPT !.pc = "handler"]
               ELSE [http EXCEPT !.pc = "responded",
                                 !.status = Resolved(http.route, http.token, http.now)]
    /\ UNCHANGED <<parseVars, storeVars, callVars, sse>>

Handle ==
    /\ http.pc = "handler"
    /\ http' = [http EXCEPT !.pc = "responded", !.status = 200,
                            !.invoked = HandlerCalls(http.route)]
    /\ UNCHANGED <<parseVars, storeVars, callVars, sse>>

HttpReset ==
    /\ http.pc = "responded"
    /\ http' = NoHttp
    /\ UNCHANGED <<parseVars, storeVars, callVars, sse>>

\* ------------------------------------------------------------------------
\* StreamSpec: assess_writing_stream.generate_sse
\* (app/api/route/front/writing.py), one step per yield and one for the
\* awaited service call, which returns a response or raises.
\* ------------------------------------------------------------------------
\* the events yielded before the service is awaited, in the order of the code
Progress == <<"start", "processing", "analyzing", "ai_processing">>

\* the categories list with the response's field names
CategoriesByField == <<"grammar", "vocabulary", "coherence", "content">>

\* the categories list of the generator: coherence is sent as structure
categories == <<"grammar", "vocabulary", "structure", "content">>

\* scores of a service response, in tenths
StreamCategoryScores == {55, 70, 90}
StreamOverallScores == {55, 65, 75, 85, 95}

StreamResponses ==
    [grammar_score : StreamCategoryScores, vocabulary_score : StreamCategoryScores,
     coherence_score : StreamCategoryScores, content_score : StreamCategoryScores,
     overall_score : StreamOverallScores]

\* exceptions assess_writing ends with
ServiceFaults == {"UnboundLocalError", "ValidationError"}

\* the score the categories list pairs with its k-th category
CategoryScore(response, k) ==
    CASE k = 1 -> response.grammar_score
      [] k = 2 -> response.vocabulary_score
      [] k = 3 -> response.coherence_score
      [] OTHER -> response.content_score

_get_level_from_score(score) ==
    IF score >= 90 THEN "Excellent"
    ELSE IF score >= 80 THEN "Very Good"
    ELSE IF score >= 70 THEN "Good"
    ELSE IF score >= 60 THEN "Fair"
    ELSE "Needs Improvement"

_get_suggestions_for_category(category, score) ==
    IF score >= 80 THEN <<<<"Excellent", category, "usage">>, <<"Continue current practice">>>>
    ELSE IF score >= 60 THEN <<<<"Good", category, "usage">>, <<"Focus on improving", category>>>>
    ELSE <<<<"Needs improvement in", category>>, <<"Practice", category, "fundamentals">>>>

ProgressEvent(type) == [type |-> type]

ResultEvent(category, score) ==
    [type |-> "result", category |-> category, score |-> score,
     suggestions |-> _get_suggestions_for_category(category, score)]

FinalEvent(response) ==
    [type |-> "final", overall_score |-> response.overall_score,
     level |-> _get_level_from_score(response.overall_score)]

ErrorEvent(exc) == [type |-> "error", message |-> exc]

NoStream == [pc |-> "idle", events |-> <<>>, answer |-> PyNone, k |-> 0]

\* StreamingResponse starts iterating the generator
StreamOpen ==
    /\ sse.pc = "idle"
    /\ sse' = [sse EXCEPT !.pc = "progress", !.k = 1]
    /\ UNCHANGED <<parseVars, storeVars, callVars, http>>

\* the yields of start, processing, analyzing and ai_processing
EmitProgress ==
    /\ sse.pc = "progress"
    /\ sse' = [sse EXCEPT !.events = Append(@, ProgressEvent(Progress[sse.k])),
                          !.k = IF sse.k = Len(Progress) THEN 0 ELSE sse.k + 1,
                          !.pc = IF sse.k = Len(Progress) THEN "await" ELSE "progress"]
    /\ UNCHANGED <<parseVars, storeVars, callVars, http>>

\* await service.assess_writing(request)
AwaitService ==
    /\ sse.pc = "await"
    /\ \/ \E response \in StreamResponses :
             sse' = [sse EXCEPT !.pc = "ai_complete", !.answer = Returned(response)]
       \/ \E exc \in ServiceFaults :
             sse' = [sse EXCEPT !.pc = "error", !.answer = Raised(exc)]
    /\ UNCHANGED <<parseVars, storeVars, callVars, http>>

EmitAiComplete ==
    /\ sse.pc = "ai_complete"
    /\ sse' = [sse EXCEPT !.events = Append(@, ProgressEvent("ai_complete")),
                          !.pc = "results", !.k = 1]
    /\ UNCHANGED <<parseVars, storeVars, callVars, http>>

\* one turn of `for category, score in categories`
EmitResult ==
    /\ sse.pc = "results"
    /\ sse' = [sse EXCEPT !.events = Append(@, ResultEvent(categories[sse.k],
                                                CategoryScore(sse.answer.val, sse.k))),
                          !.k = IF sse.k = Len(categories) THEN 0 ELSE sse.k + 1,
                          !.pc = IF sse.k = Len(categories) THEN "final" ELSE "results"]
    /\ UNCHANGED <<parseVars, storeVars, callVars, http>>

EmitFinal ==
    /\ sse.pc = "final"
    /\ sse' = [sse EXCEPT !.events = Append(@, FinalEvent(sse.answer.val)),
                          !.pc = "complete"]
    /\ UNCHANGED <<parseVars, storeVars, callVars, http>>

\* except Exception as ai_error
EmitError ==
    /\ sse.pc = "error"
    /\ sse' = [sse EXCEPT !.events = Append(@, ErrorEvent(sse.answer.exc)),
                          !.pc = "complete"]
    /\ UNCHANGED <<parseVars, storeVars, callVars, http>>

EmitComplete ==
    /\ sse.pc = "complete"
    /\ sse' = [sse EXCEPT !.events = Append(@, ProgressEvent("complete")),
                          !.pc = "closed"]
    /\ UNCHANGED <<parseVars, storeVars, callVars, http>>

StreamReset ==
    /\ sse.pc = "closed"
    /\ sse' = NoStream
    /\ UNCHANGED <<parseVars, storeVars, callVars, http>>

\* ------------------------------------------------------------------------
\* One call of an adapter's generate_response (app/ext/providers): the
\* vendor's answers to successive POSTs are fixed beforehand in a script.
\* ------------------------------------------------------------------------
AllAdapters == Adapters \cup {"meta"}

\* HTTP statuses of the vendor
OkStatus == 200
ErrorStatuses == {400, 429, 500, 502, 503, 504}

GoodReply == PyText(<<LB>> \o Members(60, "overall_score", Same) \o <<RB>>)
EmptyContent == PyText(<<>>)

\* what one POST can end with: a 200 with text, a 200 whose body has no
\* candidates / choices or no parts, an error status, or an httpx exception
VendorOutcomes ==
    {[kind |-> k, status |-> OkStatus] : k \in {"text", "no_choices", "no_parts"}}
    \cup {[kind |-> "status", status |-> c] : c \in ErrorStatuses}
    \cup {[kind |-> k, status |-> 0] : k \in {"ConnectError", "ReadTimeout"}}

Scripts == [1..MaxScript -> VendorOutcomes]

\* the provider record the adapter was configured from
CallProvider(adapter, has_model) ==
    [t |-> "provider", id |-> 1, is_active |-> TRUE,
     name |-> CASE adapter = "gemini" -> "gemini"
                [] adapter = "meta"   -> "meta-llama"
                [] adapter = "grok"   -> "groq"
                [] OTHER              -> "openai",
     ai_models |-> IF has_model THEN {1} ELSE {}]

\* the body of the try block after the POST: raise_for_status() raises on
\* an error status and the except block returns empty content; a body
\* without candidates / parts / choices gives empty content
ContentOf(outcome) ==
    IF outcome.kind = "text" THEN GoodReply ELSE EmptyContent

NoCall == [pc |-> "idle", adapter |-> "none", has_model |-> FALSE,
           script |-> <<>>, posts |-> 0, response |-> NoOutcome]

CallStart ==
    /\ call.pc = "idle"
    /\ \E a \in AllAdapters, sc \in Scripts, hm \in BOOLEAN :
          call' = [NoCall EXCEPT !.pc = "enter", !.adapter = a,
                                 !.has_model = hm, !.script = sc]
    /\ UNCHANGED <<parseVars, storeVars, unitVars>>

\* generate_response up to its try block: `model = self.config.model or ...`
CallEnter ==
    /\ call.pc = "enter"
    /\ IF EntryRaises(call.adapter)
       THEN call' = [call EXCEPT !.pc = "returned",
                                 !.response = Raised("AttributeError")]
       ELSE call' = [call EXCEPT !.pc = "post"]
    /\ UNCHANGED <<parseVars, storeVars, unitVars>>

\* the try block: `await client.post(...)` and what follows it; there is
\* no loop around it, the call returns after this one POST
CallPost ==
    /\ call.pc = "post"
    /\ call' = [call EXCEPT
                   !.pc = "returned",
                   !.posts = call.posts + 1,
                   !.response = generate_response(
                                    call.adapter,
                                    CallProvider(call.adapter, call.has_model),
                                    ContentOf(call.script[call.posts + 1]))]
    /\ UNCHANGED <<parseVars, storeVars, unitVars>>

CallReset ==
    /\ call.pc = "returned"
    /\ call' = NoCall
    /\ UNCHANGED <<parseVars, storeVars, unitVars>>

\* ------------------------------------------------------------------------
\* Requests.  A request is served inside call_session (app/resources.py):
\* a fresh session, the handler, then ResourceSession.close.  In Spec one
\* request is in flight at a time.
\* ------------------------------------------------------------------------
Quiet == \A q \in Procs : pc[q] = "idle"

Begin(p, k, id, first, req) ==
    /\ kind' = [kind EXCEPT ![p] = k]
    /\ arg' = [arg EXCEPT ![p] = id]
    /\ pc' = [pc EXCEPT ![p] = first]
    /\ tx' = [tx EXCEPT ![p] = NoTx]
    /\ result' = [result EXCEPT ![p] = NoResult]
    /\ local' = [local EXCEPT ![p] = [Local0 EXCEPT !.request = req]]
    /\ before' = [before EXCEPT ![p] = [flags |-> is_active, cache |-> cache]]
    /\ UNCHANGED <<is_active, ai_models, cache>>
    /\ UNCHANGED <<parseVars, callVars, unitVars>>

\* PUT /provider/update
StartUpdate(p) ==
    /\ Quiet
    /\ \E id \in Providers \cup {0} : Begin(p, "update", id, "unset_all", NoRequest)

\* GET /provider/current
StartCurrent(p) ==
    /\ Quiet
    /\ Begin(p, "current", 0, "load", NoRequest)

\* POST /writing/assess: WritingAssessmentService.assess_writing(request)
StartAssess(p) ==
    /\ Quiet
    /\ \E req \in Requests : Begin(p, "assess", 0, "build", req)

\* An UPDATE locks the rows it writes until its transaction ends: the
\* statement of session p proceeds when no other session has pending writes
\* (otherwise it waits, or fails on the lock wait timeout).
RowsFree(p) == \A q \in Procs \ {p} : tx[q].writes = EmptyMap

\* the except block of update_provider: rollback, IO_ERROR
Fail(p) ==
    /\ tx' = [tx EXCEPT ![p] = NoTx]
    /\ result' = [result EXCEPT ![p] = Failure("IO_ERROR")]
    /\ local' = [local EXCEPT ![p].faulted = TRUE]
    /\ pc' = [pc EXCEPT ![p] = "respond"]
    /\ UNCHANGED <<is_active, ai_models, cache, kind, arg, before>>

\* update_provider, first statement
UnsetAll(p) ==
    /\ pc[p] = "unset_all"
    /\ UNCHANGED <<parseVars, callVars, unitVars>>
    /\ \/ /\ RowsFree(p)
          /\ tx' = [tx EXCEPT ![p] = [open |-> TRUE,
                                      writes |-> Overlay(tx[p].writes, UnsetAllWrites)]]
          /\ pc' = [pc EXCEPT ![p] = "set_one"]
          /\ UNCHANGED <<is_active, ai_models, cache, kind, arg, result, local, before>>
       \/ Fail(p)

\* update_provider, second statement and the rowcount test
SetOne(p) ==
    /\ pc[p] = "set_one"
    /\ UNCHANGED <<parseVars, callVars, unitVars>>
    /\ \/ /\ tx' = [tx EXCEPT ![p].writes = Overlay(tx[p].writes, SetOneWrites(arg[p]))]
          /\ IF RowCount(arg[p]) = 0
             THEN /\ result' = [result EXCEPT ![p] = Failure("DATA_NOT_FOUND")]
                  /\ pc' = [pc EXCEPT ![p] = "respond"]
             ELSE /\ result' = result
                  /\ pc' = [pc EXCEPT ![p] = "commit"]
          /\ UNCHANGED <<is_active, ai_models, cache, kind, arg, local, before>>
       \/ Fail(p)

\* update_provider, await r.db.commit()
Commit(p) ==
    /\ pc[p] = "commit"
    /\ UNCHANGED <<parseVars, callVars, unitVars>>
    /\ \/ /\ is_active' = Committed(is_active, tx[p].writes)
          /\ tx' = [tx EXCEPT ![p] = NoTx]
          /\ pc' = [pc EXCEPT ![p] = "reload"]
          /\ UNCHANGED <<ai_models, cache, kind, arg, result, local, before>>
       \/ Fail(p)

\* update_provider, the reload: the SELECT of load_and_get_provider runs
\* at the store while the coroutine is suspended in `await r.db.execute`
ReloadQuery(p) ==
    /\ pc[p] = "reload"
    /\ UNCHANGED <<parseVars, callVars, unitVars>>
    /\ \E ok \in BOOLEAN :
          local' = [local EXCEPT
                       ![p].fetched = load_and_get_provider(View(p), ai_models, ok),
                       ![p].faulted = ~ok]
    /\ tx' = [tx EXCEPT ![p].open = TRUE]
    /\ pc' = [pc EXCEPT ![p] = "reloaded"]
    /\ UNCHANGED <<is_active, ai_models, cache, kind, arg, result, before>>

\* update_provider, the reload resumes: load_and_get_provider assigns
\* _current_provider from the rows it read, and update_provider returns
Reload(p) ==
    /\ pc[p] = "reloaded"
    /\ UNCHANGED <<parseVars, callVars, unitVars>>
    /\ cache' = local[p].fetched
    /\ result' = [result EXCEPT ![p] =
                     IF local[p].fetched # PyNone THEN Success(local[p].fetched)
                     ELSE Failure("IO_ERROR")]
    /\ pc' = [pc EXCEPT ![p] = "respond"]
    /\ UNCHANGED <<is_active, ai_models, kind, arg, tx, local, before>>

\* get_current_provider: load_and_get_provider()
LoadCurrent(p) ==
    /\ pc[p] = "load"
    /\ UNCHANGED <<parseVars, callVars, unitVars>>
    /\ \E ok \in BOOLEAN :
          LET loaded == load_and_get_provider(View(p), ai_models, ok)
          IN /\ cache' = loaded
             /\ tx' = [tx EXCEPT ![p].open = TRUE]
             /\ result' = [result EXCEPT ![p] = Success(loaded)]
             /\ local' = [local EXCEPT ![p].faulted = ~ok]
    /\ pc' = [pc EXCEPT ![p] = "respond"]
    /\ UNCHANGED <<is_active, ai_models, kind, arg, before>>

\* the route handler returns or raises
Respond(p) ==
    /\ pc[p] = "respond"
    /\ UNCHANGED <<parseVars, callVars, unitVars>>
    /\ local' = [local EXCEPT ![p].exc = HandlerRaises(kind[p], result[p])]
    /\ pc' = [pc EXCEPT ![p] = "close"]
    /\ UNCHANGED <<is_active, ai_models, cache, kind, arg, tx, result, before>>

\* ResourceSession.close(exc): commit or rollback an open transaction (a
\* failing commit is logged and swallowed), then close the session
Close(p) ==
    /\ pc[p] = "close"
    /\ UNCHANGED <<parseVars, callVars, unitVars>>
    /\ \E raises \in {r \in BOOLEAN : r => tx[p].open} :
          /\ is_active' =
                IF CloseStatement(tx[p].open, local[p].exc) = "commit" /\ ~raises
                THEN Committed(is_active, tx[p].writes)
                ELSE is_active
          /\ local' = [local EXCEPT ![p].ended =
                           [awaited |-> CloseAwaits(tx[p].open, local[p].exc),
                            in_transaction |-> tx[p].open,
                            raised |-> raises]]
    /\ tx' = [tx EXCEPT ![p] = NoTx]
    /\ pc' = [pc EXCEPT ![p] = "done"]
    /\ UNCHANGED <<ai_models, cache, kind, arg, result, before>>

\* assess_writing, step 1: PromptTemplate(...).build()
Build(p) ==
    /\ pc[p] = "build"
    /\ UNCHANGED <<parseVars, callVars, unitVars>>
    /\ IF BuildRaises(local[p].request)
       THEN /\ local' = [local EXCEPT ![p].outcome = ExceptHandler(Unbound)]
            /\ pc' = [pc EXCEPT ![p] = "done"]
       ELSE /\ local' = local
            /\ pc' = [pc EXCEPT ![p] = "cached"]
    /\ UNCHANGED <<is_active, ai_models, cache, kind, arg, tx, result, before>>

\* LLMManager._ensure_provider: cached = await get_cached_provider()
Cached(p) ==
    /\ pc[p] = "cached"
    /\ UNCHANGED <<parseVars, callVars, unitVars>>
    /\ LET got == get_cached_provider(cache)
       IN /\ local' = [local EXCEPT ![p].cached = got, ![p].provider = got]
          /\ pc' = [pc EXCEPT ![p] = IF got = PyNone THEN "ensure_load" ELSE "vendor"]
    /\ UNCHANGED <<is_active, ai_models, cache, kind, arg, tx, result, before>>

\* LLMManager._ensure_provider: result = await load_and_get_provider(), and
\* HTTPException(500) when there is still no provider
EnsureLoad(p) ==
    /\ pc[p] = "ensure_load"
    /\ UNCHANGED <<parseVars, callVars, unitVars>>
    /\ \E ok \in BOOLEAN :
          LET loaded == load_and_get_provider(View(p), ai_models, ok)
          IN /\ cache' = loaded
             /\ IF loaded = PyNone
                THEN /\ local' = [local EXCEPT ![p].queried = TRUE,
                                               ![p].faulted = ~ok,
                                               ![p].outcome =
                                                   TryExcept(no_provider_check(loaded), Unbound)]
                     /\ pc' = [pc EXCEPT ![p] = "done"]
                ELSE /\ local' = [local EXCEPT ![p].queried = TRUE,
                                               ![p].provider = loaded]
                     /\ pc' = [pc EXCEPT ![p] = "vendor"]
    /\ UNCHANGED <<is_active, ai_models, kind, arg, tx, result, before>>

\* provider.generate_response(prompt) and steps 3-4 of assess_writing
Vendor(p) ==
    /\ pc[p] = "vendor"
    /\ UNCHANGED <<parseVars, callVars, unitVars>>
    /\ \E reply \in VendorReplies :
          local' = [local EXCEPT ![p].outcome = AfterResolve(local[p].provider, reply)]
    /\ pc' = [pc EXCEPT ![p] = "done"]
    /\ UNCHANGED <<is_active, ai_models, cache, kind, arg, tx, result, before>>

\* the request is over
Finish(p) ==
    /\ pc[p] = "done"
    /\ UNCHANGED <<parseVars, callVars, unitVars>>
    /\ pc' = [pc EXCEPT ![p] = "idle"]
    /\ kind' = [kind EXCEPT ![p] = "none"]
    /\ arg' = [arg EXCEPT ![p] = 0]
    /\ result' = [result EXCEPT ![p] = NoResult]
    /\ local' = [local EXCEPT ![p] = Local0]
    /\ before' = [before EXCEPT ![p] = History0]
    /\ UNCHANGED <<is_active, ai_models, cache, tx>>

\* ------------------------------------------------------------------------
\* The store the program starts on: at most one provider row is active,
\* every model row belongs to a provider, and the cache holds what
\* initialize_cache (app/resources.py) left there at startup.  Model rows
\* are interchangeable: they are numbered by owner and, within an owner,
\* the active ones first.
\* ------------------------------------------------------------------------
ModelRows ==
    {ms \in [Models -> [provider_id : Providers, is_active : BOOLEAN]] :
        \A m1, m2 \in Models :
            m1 <= m2 =>
                /\ ms[m1].provider_id <= ms[m2].provider_id
                /\ (ms[m1].provider_id = ms[m2].provider_id /\ ms[m2].is_active)
                      => ms[m1].is_active}

FlagRows ==
    {fl \in [Providers -> BOOLEAN] : Cardinality({q \in Providers : fl[q]}) <= 1}

IdleRequests ==
    /\ pc = [p \in Procs |-> "idle"]
    /\ kind = [p \in Procs |-> "none"]
    /\ arg = [p \in Procs |-> 0]
    /\ tx = [p \in Procs |-> NoTx]
    /\ result = [p \in Procs |-> NoResult]
    /\ local = [p \in Procs |-> Local0]
    /\ before = [p \in Procs |-> History0]

ParserIdle ==
    /\ raw = PyNone
    /\ parser = "idle"
    /\ out = NoOutcome
    /\ call = NoCall
    /\ http = NoHttp
    /\ sse = NoStream

Init ==
    /\ is_active \in FlagRows
    /\ ai_models \in ModelRows
    /\ cache \in {load_and_get_provider(is_active, ai_models, ok) : ok \in BOOLEAN}
    /\ IdleRequests
    /\ ParserIdle

Next ==
    \E p \in Procs :
        \/ StartUpdate(p)
        \/ UnsetAll(p)
        \/ SetOne(p)
        \/ Commit(p)
        \/ ReloadQuery(p)
        \/ Reload(p)
        \/ StartCurrent(p)
        \/ LoadCurrent(p)
        \/ Respond(p)
        \/ Close(p)
        \/ StartAssess(p)
        \/ Build(p)
        \/ Cached(p)
        \/ EnsureLoad(p)
        \/ Vendor(p)
        \/ Finish(p)

Spec == Init /\ [][Next]_vars

\* ------------------------------------------------------------------------
\* ParseSpec: the parsers applied to every raw input of the model
\* ------------------------------------------------------------------------
ApplyService ==
    /\ parser = "idle"
    /\ \E r \in RawInputs :
          /\ raw' = r
          /\ out' = _parse_ai_response(r)
    /\ parser' = "service"
    /\ UNCHANGED <<storeVars, callVars, unitVars>>

ApplyAdapter ==
    /\ parser = "idle"
    /\ \E r \in RawInputs, a \in Adapters :
          /\ raw' = r
          /\ parser' = a
          /\ out' = parse_writing_response(a, r)
    /\ UNCHANGED <<storeVars, callVars, unitVars>>

Reset ==
    /\ parser # "idle"
    /\ raw' = PyNone
    /\ parser' = "idle"
    /\ out' = NoOutcome
    /\ UNCHANGED <<storeVars, callVars, unitVars>>

InitParse ==
    /\ is_active = [q \in Providers |-> FALSE]
    /\ ai_models = [m \in Models |-> [provider_id |-> 1, is_active |-> FALSE]]
    /\ cache = PyNone
    /\ IdleRequests
    /\ ParserIdle

NextStream ==
    \/ StreamOpen
    \/ EmitProgress
    \/ AwaitService
    \/ EmitAiComplete
    \/ EmitResult
    \/ EmitFinal
    \/ EmitError
    \/ EmitComplete
    \/ StreamReset

StreamSpec == InitParse /\ [][NextStream]_vars

NextParse == ApplyService \/ ApplyAdapter \/ Reset

\* ------------------------------------------------------------------------
\* CoerceSpec: the adapters' coercion helpers applied to single values
\* ------------------------------------------------------------------------
ScoreNumbers == (0 - 20) .. 120
ScoreStrings == {"7", " 7 ", "8", "12", "-3", "8/10", "abc", "", " ", "nan"}
ScoreInputs ==
    {PyNum(n) : n \in ScoreNumbers \cup {NaN}}
    \cup {PyStr(x) : x \in ScoreStrings}
    \cup {PyNone, PyList(<<PyNum(70)>>), PyDict(EmptyMap)}

Items == {PyNone, PyStr("x"), PyStr(" "), PyNum(70)}
ListInputs ==
    {PyList(items) : items \in SeqsUpTo(Items, MaxItems)}
    \cup {PyStr(x) : x \in {"", " ", "x", " x "}}
    \cup {PyNone, PyNum(70), PyDict(EmptyMap)}

ApplyParseScore ==
    /\ parser = "idle"
    /\ \E value \in ScoreInputs :
          /\ raw' = value
          /\ out' = [a \in Adapters |-> _parse_score(a, value)]
    /\ parser' = "score"
    /\ UNCHANGED <<storeVars, callVars, unitVars>>

ApplyCoerceList ==
    /\ parser = "idle"
    /\ \E value \in ListInputs :
          /\ raw' = value
          /\ out' = [a \in Adapters |-> CoerceList(a, value)]
    /\ parser' = "list"
    /\ UNCHANGED <<storeVars, callVars, unitVars>>

NextCoerce == ApplyParseScore \/ ApplyCoerceList \/ Reset

CoerceSpec == InitParse /\ [][NextCoerce]_vars

\* ------------------------------------------------------------------------
\* SelectSpec: LLMManager._ensure_provider applied to a cached provider,
\* given by the keywords its name contains and its active models
\* ------------------------------------------------------------------------
Keywords == {"openai", "meta", "llama", "grok", "groq", "gemini", "google"}

ApplySelect ==
    /\ parser = "idle"
    /\ \E parts \in SUBSET Keywords, ms \in SUBSET Models :
          /\ raw' = [t |-> "provider", parts |-> parts, ai_models |-> ms]
          /\ out' = [adapter |-> AdapterOf(parts),
                     model |-> ModelArg([ai_models |-> ms])]
    /\ parser' = "select"
    /\ UNCHANGED <<storeVars, callVars, unitVars>>

NextSelect == ApplySelect \/ Reset

SelectSpec == InitParse /\ [][NextSelect]_vars

\* ------------------------------------------------------------------------
\* ContextSpec: a service function's return value through the @service
\* wrapper and a `with ServiceContext(catch_all) as ctx:` block of the form
\*     v1 = ctx <= result1 ; ... ; vn = ctx <= resultn ; rest
\* (app/service/base.py), where rest returns or raises
\* ------------------------------------------------------------------------
\* an Errorneous member
Errorneous(e) == [t |-> "error", e |-> e]
Errors == {"DATA_NOT_FOUND", "IO_ERROR", "UNAUTHORIZED"}

\* what a service function returns: an Errorneous, None, or a provider
ServiceReturns ==
    {Errorneous(e) : e \in Errors}
    \cup {load_and_get_provider(fl, ms, TRUE) : fl \in FlagRows, ms \in ModelRows}

\* the @service wrapper
service(r) == IF r.t = "error" THEN Failure(r.e) ELSE Success(r)

\* ServiceContext.__le__: Result.__bool__ is True for a Success and False
\* for a Failure
__le__(res) ==
    IF res.tag = "success" THEN Returned(res.val) ELSE Raised("Aborted")

\* an __exit__ that lets Aborted propagate like any other exception
ExitKeepsAborted(exc, res, catch_all) ==
    IF exc # "none" /\ catch_all
    THEN [swallowed |-> TRUE, result |-> Failure("UNEXPECTED")]
    ELSE [swallowed |-> FALSE, result |-> res]

\* ServiceContext.__exit__, given the exception the block ended with, the
\* result the exception carries (or ctx.result) and catch_all
__exit__(exc, res, catch_all) ==
    IF exc = "Aborted" THEN [swallowed |-> TRUE, result |-> res]
    ELSE IF exc # "none" /\ catch_all
    THEN [swallowed |-> TRUE, result |-> Failure("UNEXPECTED")]
    ELSE [swallowed |-> FALSE, result |-> res]

\* the first `ctx <= result` of the block that aborts, 0 when none does
FirstAbort(results) ==
    LET failed == {i \in DOMAIN results : __le__(results[i]).exc # "none"}
    IN IF failed = {} THEN 0 ELSE SetMin(failed)

\* the exception the block ends with
BlockException(results, rest_raises) ==
    IF FirstAbort(results) # 0 THEN "Aborted"
    ELSE IF rest_raises THEN "Exception"
    ELSE "none"

\* the result __exit__ works on: the one the Aborted exception carries,
\* otherwise ctx.result, which the last `ctx <= result` assigned
ResultAtExit(results) ==
    IF FirstAbort(results) # 0 THEN results[FirstAbort(results)]
    ELSE results[Len(results)]

\* the whole block: the values the successive `ctx <= result` yielded,
\* whether the statements after them ran, ctx.result after the block, and
\* the exception that leaves the block
RunBlock(results, catch_all, rest_raises) ==
    [values |-> [i \in 1..(IF FirstAbort(results) # 0 THEN FirstAbort(results) - 1
                           ELSE Len(results)) |-> __le__(results[i]).val],
     ran_rest |-> FirstAbort(results) = 0,
     result |-> __exit__(BlockException(results, rest_raises),
                         ResultAtExit(results), catch_all).result,
     propagated |->
         IF __exit__(BlockException(results, rest_raises),
                     ResultAtExit(results), catch_all).swallowed
         THEN "none" ELSE BlockException(results, rest_raises)]

ApplyBlock ==
    /\ parser = "idle"
    /\ \E n \in 1..MaxCalls :
          \E rs \in [1..n -> ServiceReturns], catch_all \in BOOLEAN, rest_raises \in BOOLEAN :
             /\ raw' = [t |-> "block", returned |-> rs, catch_all |-> catch_all,
                        rest_raises |-> rest_raises]
             /\ out' = RunBlock([i \in 1..n |-> service(rs[i])], catch_all, rest_raises)
    /\ parser' = "block"
    /\ UNCHANGED <<storeVars, callVars, unitVars>>

NextContext == ApplyBlock \/ Reset

ContextSpec == InitParse /\ [][NextContext]_vars

NextAuth == Receive \/ ResolveDependencies \/ Handle \/ HttpReset

AuthSpec == InitParse /\ [][NextAuth]_vars

NextCall == CallStart \/ CallEnter \/ CallPost \/ CallReset

CallSpec == InitParse /\ [][NextCall]_vars

ParseSpec == InitParse /\ [][NextParse]_vars

\* ------------------------------------------------------------------------
\* ConcSpec: the same requests served concurrently.  The event loop runs
\* one coroutine at a time and switches at an await, so the steps above
\* interleave freely.
\* ------------------------------------------------------------------------
\* a request object whose prompt can be built
BuildableRequest == [has_mode |-> TRUE, type |-> "paragraph", mode |-> "writing"]

\* the requests in flight at a time: two are enough for every interleaving
\* of one request's steps with another's
ConcProcs == {p \in Procs : p <= 2}

\* a request begins while others are under way; the history of the
\* sequential claims is not kept
ConcBegin(p, k, id, first, req) ==
    /\ pc[p] = "idle"
    /\ kind' = [kind EXCEPT ![p] = k]
    /\ arg' = [arg EXCEPT ![p] = id]
    /\ pc' = [pc EXCEPT ![p] = first]
    /\ tx' = [tx EXCEPT ![p] = NoTx]
    /\ result' = [result EXCEPT ![p] = NoResult]
    /\ local' = [local EXCEPT ![p] = [Local0 EXCEPT !.request = req]]
    /\ UNCHANGED <<is_active, ai_models, cache, before>>
    /\ UNCHANGED <<parseVars, callVars, unitVars>>

ConcUpdate(p) ==
    /\ pc[p] = "idle"
    /\ \E id \in Providers \cup {0} : ConcBegin(p, "update", id, "unset_all", NoRequest)

ConcCurrent(p) ==
    /\ pc[p] = "idle"
    /\ ConcBegin(p, "current", 0, "load", NoRequest)

ConcAssess(p) ==
    /\ pc[p] = "idle"
    /\ ConcBegin(p, "assess", 0, "build", BuildableRequest)

NextConc ==
    \E p \in ConcProcs :
        \/ ConcUpdate(p)
        \/ UnsetAll(p)
        \/ SetOne(p)
        \/ Commit(p)
        \/ ReloadQuery(p)
        \/ Reload(p)
        \/ ConcCurrent(p)
        \/ LoadCurrent(p)
        \/ Respond(p)
        \/ Close(p)
        \/ ConcAssess(p)
        \/ Build(p)
        \/ Cached(p)
        \/ EnsureLoad(p)
        \/ Vendor(p)
        \/ Finish(p)

ConcSpec == Init /\ [][NextConc]_vars

\* ========================================================================
\* Properties
\* ========================================================================
ActiveRows == {q \in Providers : is_active[q]}

\* the call of request p has returned
Returned_update(p) == kind[p] = "update" /\ pc[p] \in {"respond", "close", "done"}

\* the models of provider q whose is_active flag is true
FlaggedModels(q) == {m \in Models : ai_models[m].provider_id = q /\ ai_models[m].is_active}

\* C4: at most one provider row is active in every committed store state
\* reachable by any sequence of update_provider calls (successful,
\* not-found or failing) from a store with at most one active row.
C4_AtMostOneActive == Cardinality(ActiveRows) <= 1

\* an update that succeeded moved the active flag from one row to another
C4_Witness ==
    \E p \in Procs :
        /\ kind[p] = "update" /\ pc[p] = "done"
        /\ result[p].tag = "success"
        /\ \E a \in Providers : before[p].flags[a] /\ a # arg[p] /\ ~is_active[a]

\* C5: with row A active, update_provider(B) for another row B leaves A
\* inactive and B active, the cache holds B with exactly B's active-flagged
\* models, and the call returns that provider (no statement of the call
\* having failed).
C5_UpdateActivates ==
    \A p \in Procs :
        (/\ Returned_update(p)
         /\ arg[p] \in Providers
         /\ ~local[p].faulted
         /\ \E a \in Providers : a # arg[p] /\ before[p].flags[a])
        => /\ ActiveRows = {arg[p]}
           /\ cache = [t |-> "provider", id |-> arg[p], name |-> ProviderName(arg[p]),
                       is_active |-> TRUE, ai_models |-> FlaggedModels(arg[p])]
           /\ result[p] = Success(cache)

\* such an update has returned, and B owns a model that is not active
C5_Witness ==
    \E p \in Procs :
        /\ Returned_update(p)
        /\ arg[p] \in Providers
        /\ ~local[p].faulted
        /\ \E a \in Providers : a # arg[p] /\ before[p].flags[a]
        /\ \E m \in Models : ai_models[m].provider_id = arg[p] /\ ~ai_models[m].is_active
        /\ \E m \in Models : ai_models[m].provider_id = arg[p] /\ ai_models[m].is_active

\* C6: update_provider with an id that matches no row returns the not-found
\* condition (unless its first statement failed), and once the request has
\* finished, session close included, every is_active flag is what it was
\* before the call.
C6_NotFoundKeepsFlags ==
    \A p \in Procs :
        (kind[p] = "update" /\ arg[p] \notin Providers)
        => /\ pc[p] \in {"respond", "close", "done"}
              => \/ result[p] = Failure("DATA_NOT_FOUND")
                 \/ local[p].faulted
           /\ pc[p] = "done" => is_active = before[p].flags

\* a not-found request has finished on a store that had an active row
C6_Witness ==
    \E p \in Procs :
        /\ kind[p] = "update" /\ arg[p] \notin Providers
        /\ pc[p] = "done"
        /\ result[p] = Failure("DATA_NOT_FOUND")
        /\ \E a \in Providers : before[p].flags[a]

\* C7: whenever update_provider reports an I/O-class error, the persisted
\* is_active flags equal their values before the call.
C7_IoErrorKeepsFlags ==
    \A p \in Procs :
        (Returned_update(p) /\ result[p] = Failure("IO_ERROR"))
        => is_active = before[p].flags

\* C8: whenever update_provider returns an error, the cache slot holds the
\* value it held before the call.
C8_ErrorKeepsCache ==
    \A p \in Procs :
        (Returned_update(p) /\ result[p].tag = "failure")
        => cache = before[p].cache

\* C9: no operation other than update_provider changes the cache slot.
C9_OnlyUpdateWritesCache ==
    [][cache' # cache => \E p \in Procs : kind[p] = "update" /\ pc[p] = "reload"]_vars

\* C10: provider resolution takes the cached provider when the slot is set
\* and queries the store only when it is unset; after a query that finds an
\* active row the slot holds that row with exactly its active-flagged models.
C10_ResolveReadsCacheFirst ==
    \A p \in Procs :
        (kind[p] = "assess")
        => /\ pc[p] = "ensure_load" => before[p].cache = PyNone
           /\ local[p].queried => before[p].cache = PyNone
           /\ (pc[p] = "vendor" /\ ~local[p].queried)
                 => local[p].provider = before[p].cache
           /\ (local[p].queried /\ local[p].provider # PyNone)
                 => /\ cache = local[p].provider
                    /\ is_active[cache.id]
                    /\ cache.id \in Providers
                    /\ cache.ai_models = FlaggedModels(cache.id)

\* a resolution queried the store and found a provider that owns an active
\* and an inactive model
C10_Witness ==
    \E p \in Procs :
        /\ kind[p] = "assess"
        /\ local[p].queried
        /\ local[p].provider # PyNone
        /\ \E m \in Models : ai_models[m].provider_id = cache.id /\ ~ai_models[m].is_active
        /\ \E m \in Models : ai_models[m].provider_id = cache.id /\ ai_models[m].is_active

\* the numeric scores of a result mapping lie in [0,10]
ScoresInRange(f) ==
    \A k \in Range(ScoreFields) :
        /\ k \in DOMAIN f
        /\ f[k].t = "num"
        /\ f[k].n >= ScoreMin
        /\ f[k].n <= ScoreMax

\* C1: assess_writing never lets an exception escape: whatever fails, the
\* call ends by returning a response object.
C1_AssessNeverRaises ==
    \A p \in Procs :
        (kind[p] = "assess" /\ pc[p] = "done") => local[p].outcome.exc = "none"

\* C2: no parser raises past its boundary: for every raw input, each
\* adapter's parse_writing_response and _parse_ai_response return a result
\* mapping.
C2_ParsersNeverRaise ==
    parser # "idle" => (out.exc = "none" /\ out.val.t = "dict")

\* C3: every numeric score of the result of every parse path of
\* _parse_ai_response is in [0,10].
C3_ScoresInRange ==
    (parser = "service" /\ out.exc = "none") => ScoresInRange(out.val.f)

\* C11: when the cache slot is unset and no provider row is active,
\* resolution fails with the "no active provider configured" condition, no
\* adapter is called, and that condition is what the caller of
\* assess_writing receives.
C11_NoProviderSurfaces ==
    \A p \in Procs :
        (/\ kind[p] = "assess" /\ pc[p] = "done"
         /\ local[p].queried
         /\ before[p].cache = PyNone
         /\ ActiveRows = {})
        => local[p].outcome = no_provider_check(PyNone)

\* a provider value holds none of its row's inactive models (and no model
\* of another row)
OnlyActiveModels(v) ==
    v # PyNone =>
        \A m \in v.ai_models : ai_models[m].provider_id = v.id /\ ai_models[m].is_active

\* C12: in every interleaving of activations and reloads with readers of
\* the slot, the slot never holds, and no reader ever gets, a provider whose
\* ai_models list contains an inactive model of that provider.
C12_CacheNeverHalfUpdated ==
    /\ OnlyActiveModels(cache)
    /\ \A p \in Procs : OnlyActiveModels(local[p].cached)

\* a reader took from the slot the provider that an activation still under
\* way has just stored there, and that provider owns an inactive model
C12_Witness ==
    \E p, q \in Procs :
        /\ kind[q] = "update" /\ pc[q] = "respond" /\ result[q].tag = "success"
        /\ kind[p] = "assess" /\ pc[p] = "vendor"
        /\ local[p].cached = result[q].val
        /\ \E m \in Models : ai_models[m].provider_id = arg[q] /\ ~ai_models[m].is_active

Transient(outcome) ==
    \/ outcome.kind = "status" /\ outcome.status \in {429, 500, 502, 503, 504}
    \/ outcome.kind \in {"ConnectError", "ReadTimeout"}

\* C13: a vendor call that answers 503 to every attempt is attempted
\* exactly 3 times and generate_response then returns empty content; a call
\* that fails transiently and then succeeds returns the successful content.
C13_BoundedRetry ==
    (call.pc = "returned" /\ call.adapter \in Adapters)
    => /\ (\A i \in 1..3 : call.script[i] = [kind |-> "status", status |-> 503])
             => /\ call.posts = 3
                /\ call.response.exc = "none"
                /\ call.response.val.content = EmptyContent
       /\ (Transient(call.script[1]) /\ call.script[2].kind = "text")
             => /\ call.response.exc = "none"
                /\ call.response.val.content = GoodReply

\* C14: every adapter returns a response object for every outcome of the
\* vendor call and never lets an exception propagate.
C14_AdaptersAlwaysReturn ==
    call.pc = "returned" => call.response.exc = "none"

\* C15: _parse_score returns a score in [0,10] for every input: a number
\* in range unchanged, 0 below the range, 10 above it, N for a string "N/M",
\* and 0.0 for an input that cannot be read as a number.
C15_ParseScoreInRange ==
    parser = "score" =>
        \A a \in Adapters :
            /\ out[a] \in ScoreMin..ScoreMax
            /\ (raw.t = "num" /\ raw.n \in ScoreMin..ScoreMax) => out[a] = raw.n
            /\ raw = PyStr("8/10") => out[a] = 80
            /\ raw \in {PyStr("abc"), PyNone} => out[a] = 0

\* the result the list coercion is said to give for a value
NonNullItems(value) == SelectSeq(value.items, LAMBDA item : item # PyNone)
CoercedAsSaid(value, coerced) ==
    CASE value.t = "str" /\ Strip(value.s) = "" -> coerced = PyNone
      [] value.t = "str" /\ Strip(value.s) # "" ->
            coerced = PyList(<<PyStr(Strip(value.s))>>)
      [] value.t = "list" /\ NonNullItems(value) = <<>> -> coerced = PyNone
      [] value.t = "list" /\ NonNullItems(value) # <<>> ->
            /\ coerced.t = "list"
            /\ Len(coerced.items) = Len(NonNullItems(value))
            /\ \A i \in DOMAIN coerced.items :
                  coerced.items[i] = PyStr(PyStrOf(NonNullItems(value)[i]))
      [] OTHER -> coerced = PyNone

\* C16: _coerce_optional_str_list maps None, the empty and the blank string
\* to None, another string to the one-element list of the trimmed string, a
\* list to the strings of its non-null items in order (None when there is
\* none), and every other type to None.
C16_ListCoercion ==
    parser = "list" => \A a \in Adapters : CoercedAsSaid(raw, out[a])

C16_Witness ==
    /\ parser = "list"
    /\ raw = PyList(<<PyNone, PyStr("x"), PyNum(70)>>)
    /\ out["gemini"] = PyList(<<PyStr("x"), PyStr("<str(item)>")>>)

\* C17: the Gemini, OpenAI and Groq adapters coerce every value alike:
\* _parse_score returns the same score and _coerce_optional_str_list the
\* same list or None.
C17_SameCoercion ==
    parser \in {"score", "list"} =>
        /\ out["gemini"] = out["openai"]
        /\ out["openai"] = out["grok"]

\* a raw content that is a JSON object holding the six required fields, the
\* five scores numbers in [0,10] and general_feedback a string
Decoded(content) == json_loads(content).val.f
WellFormed(content) ==
    /\ content.t = "text"
    /\ json_loads(content).exc = "none"
    /\ json_loads(content).val.t = "dict"
    /\ Range(RequiredFields) \subseteq DOMAIN Decoded(content)
    /\ \A k \in Range(ScoreFields) :
          /\ Decoded(content)[k].t = "num"
          /\ Decoded(content)[k].n \in ScoreMin..ScoreMax
    /\ Decoded(content)["general_feedback"].t = "str"

Applied == {"service"} \cup Adapters

\* C18: a well-formed JSON object with the six required fields and all
\* scores in [0,10] is parsed, by each adapter's parse_writing_response and
\* by _parse_ai_response, to a result whose five scores and general_feedback
\* are the values of the input.
C18_RoundTrip ==
    (parser \in Applied /\ WellFormed(raw)) =>
        /\ out.exc = "none"
        /\ \A k \in Range(RequiredFields) : out.val.f[k] = Decoded(raw)[k]

C18_Witness ==
    /\ parser = "service"
    /\ WellFormed(raw)
    /\ out.exc = "none"
    /\ out.val.f["content_score"] = PyNum(90)
    /\ out.val.f["general_feedback"] = PyStr("good")

\* what a parser gives when it could not parse: the feedback that says so,
\* and the score it falls back to
FailureFeedback ==
    {PyStr("Failed to parse AI response."),
     PyStr("Unable to assess writing due to technical error."),
     PyStr("Assessment incomplete")}
FallbackScore(applied) == IF applied = "service" THEN DefaultScore ELSE ScoreMin

\* C19: a truncated JSON object (a valid prefix without the closing brace)
\* does not raise; the result's general_feedback tells of the parse failure
\* and its scores are the fallback defaults.
C19_TruncatedDegrades ==
    (parser \in Applied /\ raw.t = "text" /\ raw.toks \in TruncatedTexts) =>
        /\ out.exc = "none"
        /\ out.val.f["general_feedback"] \in FailureFeedback
        /\ \A k \in Range(ScoreFields) : out.val.f[k] = PyNum(FallbackScore(parser))

\* the object whose scores are 6, 7, 8, 9 and that has no overall_score
NoOverall == PyText(<<LB>> \o Members(60, "overall_score", Absent) \o <<RB>>)

\* C20: when overall_score is missing and the other four scores are 6, 7,
\* 8, 9, the parsed overall_score is 7.5, their mean rounded to one decimal.
C20_OverallIsMean ==
    (parser \in Applied /\ raw = NoOverall) =>
        /\ out.exc = "none"
        /\ out.val.f["overall_score"] = PyNum(RoundMean4(60 + 70 + 80 + 90))

\* the score the text fallback finds next to a keyword, 5.0 when none
FoundOrDefault(ts, kw) ==
    IF SearchScore(ts, kw).ok THEN SearchScore(ts, kw).n ELSE DefaultScore

\* C21: in the text-extraction fallback an overall score found next to the
\* keyword "overall" is kept as overall_score; when none was found
\* overall_score is the rounded mean of the grammar, vocabulary, coherence
\* and content scores found, each missing one counted as 5.0.
C21_OverallKeptOrMean ==
    (parser = "service" /\ raw.t = "text" /\ json_loads(raw).exc = "JSONDecodeError") =>
        /\ out.exc = "none"
        /\ out.val.f["overall_score"] =
              IF SearchScore(raw.toks, "overall").ok
              THEN PyNum(SearchScore(raw.toks, "overall").n)
              ELSE PyNum(RoundMean4(FoundOrDefault(raw.toks, "grammar")
                                    + FoundOrDefault(raw.toks, "vocabulary")
                                    + FoundOrDefault(raw.toks, "coherence")
                                    + FoundOrDefault(raw.toks, "content")))

\* the span of a text from its first '{' to its last '}' (the whole text
\* when it has none)
BraceSpan(ts) ==
    LET opens == {i \in DOMAIN ts : ts[i] = LB}
        closes == {i \in DOMAIN ts : ts[i] = RB}
    IN IF opens = {} \/ closes = {} THEN ts
       ELSE SubSeq(ts, SetMin(opens), CHOOSE j \in closes : \A k \in closes : k <= j)

\* C22: when the raw text is not valid JSON as a whole but holds a JSON
\* object wrapped in prose, the parser returns the scores and feedback of
\* the object spanning the first '{' to the last '}', not the regex-fallback
\* or error result.
C22_WrappedObjectParsed ==
    (/\ parser \in Applied
     /\ raw.t = "text"
     /\ json_loads(raw).exc = "JSONDecodeError"
     /\ WellFormed(PyText(BraceSpan(raw.toks)))) =>
        /\ out.exc = "none"
        /\ \A k \in Range(RequiredFields) :
              out.val.f[k] = Decoded(PyText(BraceSpan(raw.toks)))[k]

\* an assessment whose adapter call returned an LLmResponse
AdapterReturned(p) ==
    /\ kind[p] = "assess"
    /\ pc[p] = "done"
    /\ local[p].provider # PyNone
    /\ ~EntryRaises(AdapterFor(local[p].provider.name))

\* C23: the result of an assessment carries the provider name and the
\* model of the LLmResponse that generate_response returned, and an
\* assessment timestamp.
C23_ResultStamped ==
    \A p \in Procs :
        AdapterReturned(p) =>
            /\ local[p].outcome.exc = "none"
            /\ "assessment_timestamp" \in DOMAIN local[p].outcome.val.f
            /\ local[p].outcome.val.f["provider"] = PyStr(local[p].provider.name)
            /\ local[p].outcome.val.f["model"] = PyNum(ModelArg(local[p].provider))

\* C24: PromptTemplate.build succeeds for every granularity in {word,
\* sentence, paragraph, essay} and every mode in {writing, speaking}: the
\* build step of a request that carries a type and a mode never ends the
\* request with a failure.
C24_BuildNeverFails ==
    [][\A p \in Procs :
          (pc[p] = "build" /\ local[p].request.has_mode) => pc'[p] # "done"]_vars

\* C25: the assessment endpoint is authenticated: assess_writing is invoked
\* only for a request that carries a valid OTP token; a request whose token
\* is missing, malformed or expired never reaches it.
C25_AssessNeedsToken ==
    http.invoked = "assess_writing" => verify_token(http.token, http.now)

UpdateCompleted(p) ==
    kind[p] = "update" /\ pc[p] = "done" /\ result[p].tag = "success"

\* C27: the cache never ends stale under concurrent activations: when two
\* update_provider calls for different providers have both completed, in
\* whatever interleaving of their store accesses, the cache slot holds the
\* provider that is active in the committed store.
C27_CacheNotStale ==
    \A p, q \in Procs :
        (UpdateCompleted(p) /\ UpdateCompleted(q) /\ arg[p] # arg[q]) =>
            /\ cache # PyNone
            /\ is_active[cache.id]

\* a request that went through call_session and has ended
SessionEnded(p) == kind[p] \in {"update", "current"} /\ pc[p] = "done"

\* C28: when a request ends, its open transaction is committed if and only
\* if the handler finished without an exception (the session was not marked
\* failed), otherwise it is rolled back; in every case, also when the commit
\* or the rollback fails, the session is closed.
C28_SessionLifecycle ==
    \A p \in Procs :
        SessionEnded(p) =>
            /\ local[p].ended.awaited[Len(local[p].ended.awaited)] = "close"
            /\ local[p].ended.in_transaction =>
                  /\ Len(local[p].ended.awaited) = 2
                  /\ local[p].ended.awaited[1] = "commit" <=> ~local[p].exc
                  /\ local[p].ended.awaited[1] = "rollback" <=> local[p].exc
            /\ ~local[p].ended.in_transaction => local[p].ended.awaited = <<"close">>

\* an update whose handler raised: its transaction was rolled back, the
\* rollback failed, and the session was closed
C28_Witness ==
    \E p \in Procs :
        /\ SessionEnded(p)
        /\ local[p].exc
        /\ local[p].ended = [awaited |-> <<"rollback", "close">>,
                             in_transaction |-> TRUE, raised |-> TRUE]

\* the first Errorneous among the values the service functions returned
FirstError(returned) ==
    LET errs == {i \in DOMAIN returned : returned[i].t = "error"}
    IN IF errs = {} THEN 0 ELSE SetMin(errs)

\* C29: the @service wrapper turns a returned Errorneous into a Failure and
\* any other value into a Success; in a ServiceContext block `ctx <= result`
\* yields the value of a Success; for a Failure the rest of the block does
\* not run, the abort is swallowed at block exit and ctx.result is that
\* Failure; any other exception propagates unless catch_all is set.
C29_ServiceShortCircuit ==
    parser = "block" =>
        /\ \A i \in DOMAIN raw.returned :
              service(raw.returned[i]) =
                  IF raw.returned[i].t = "error" THEN Failure(raw.returned[i].e)
                  ELSE Success(raw.returned[i])
        /\ \A i \in DOMAIN out.values : out.values[i] = raw.returned[i]
        /\ FirstError(raw.returned) # 0 =>
              /\ Len(out.values) = FirstError(raw.returned) - 1
              /\ ~out.ran_rest
              /\ out.propagated = "none"
              /\ out.result = Failure(raw.returned[FirstError(raw.returned)].e)
        /\ FirstError(raw.returned) = 0 =>
              /\ Len(out.values) = Len(raw.returned)
              /\ out.ran_rest
              /\ (raw.rest_raises /\ ~raw.catch_all) => out.propagated = "Exception"
              /\ (raw.rest_raises /\ raw.catch_all) => out.propagated = "none"
              /\ ~raw.rest_raises =>
                    /\ out.propagated = "none"
                    /\ out.result = Success(raw.returned[Len(raw.returned)])

C29_Witness ==
    /\ parser = "block"
    /\ Len(raw.returned) = 2
    /\ raw.returned[1] = PyNone
    /\ raw.returned[2] = Errorneous("DATA_NOT_FOUND")
    /\ ~raw.catch_all
    /\ out.values = <<PyNone>>
    /\ out.result = Failure("DATA_NOT_FOUND")
    /\ ~out.ran_rest
    /\ out.propagated = "none"

\* the type fields of the events sent so far
EventTypes == [i \in DOMAIN sse.events |-> sse.events[i].type]

\* the events of a stream whose service call returned / raised, by type
TypesOnSuccess ==
    <<"start", "processing", "analyzing", "ai_processing", "ai_complete",
      "result", "result", "result", "result", "final", "complete">>
TypesOnFailure ==
    <<"start", "processing", "analyzing", "ai_processing", "error", "complete">>

IsPrefix(a, b) == Len(a) <= Len(b) /\ SubSeq(b, 1, Len(a)) = a

\* C30: every stream emits start, processing, analyzing, ai_processing in
\* that order; then ai_complete, four result events (grammar, vocabulary,
\* structure, content, in that order) and one final event when the service
\* call returned, or a single error event when it raised; complete is
\* emitted last in both cases, exactly once.
C30_EventOrder ==
    /\ IsPrefix(EventTypes, TypesOnSuccess) \/ IsPrefix(EventTypes, TypesOnFailure)
    /\ \A i \in DOMAIN sse.events :
          sse.events[i].type = "result" =>
              sse.events[i].category =
                  <<"grammar", "vocabulary", "structure", "content">>[i - 5]
    /\ sse.pc = "closed" =>
          /\ sse.answer.exc = "none" => EventTypes = TypesOnSuccess
          /\ sse.answer.exc # "none" => EventTypes = TypesOnFailure
          /\ Cardinality({i \in DOMAIN sse.events : sse.events[i].type = "complete"}) = 1
          /\ sse.events[Len(sse.events)].type = "complete"

C30_Witness ==
    /\ sse.pc = "closed"
    /\ sse.answer = Raised("UnboundLocalError")
    /\ EventTypes = TypesOnFailure

====
